---- MODULE Spec2Model ----
(***************************************************************************)
(* A model of svn_select_to_git.py: the replay of selected subversion      *)
(* revisions as git commits.  Text is modelled line by line; a line is a   *)
(* record whose kind says which of the script's regular expressions match  *)
(* it.  Trees are maps from paths to contents.  The runs modelled are the  *)
(* ones made with --no-external-cfg and --no-cam-move, on branch master or  *)
(* on a branch that git_setup_dir has to find or make.                     *)
(***************************************************************************)
EXTENDS Integers, Sequences, FiniteSets, TLC

\* ------------------------------------------------------------------ bounds
\* Revision numbers of the subversion repository are 1..MaxRev.
MaxRev == 3
\* The script is run at most MaxRuns times against the same target.
MaxRuns == 2
\* A revision specifier has at most MaxSpecLen tokens.
MaxSpecLen == 3

\* sys.maxsize, the "no next revision" sentinel (any number above MaxRev).
MaxSize == 2147483647

\* cam_svn_to_git_mods counts one change per file it rewrites: twelve files,
\* (a thirteenth, tests_pretag_izumi_nag, is optional and absent here).
CamMods == 12

\* The string "None" stands for Python's None where a text is expected.
None == "None"

\* svnLastChangedRev gives the text '' when svn info fails: NoRev stands
\* for it in a table of tag revisions (revisions are 1 and above).
NoRev == 0

\* formatLogMessage: a first line of more than SummaryMax characters is cut
\* to its first SummaryKeep characters.
SummaryMax == 72
SummaryKeep == 68

\* ------------------------------------------------------------------- lines
\* k: the kind of line.  a, b, c: what the matching expression captures
\* (a and c numbers, b a text).
Line(k, a, b, c) == [k |-> k, a |-> a, b |-> b, c |-> c]
\* A divider line of svn log.
Div == Line("div", 0, "", 0)
\* An empty line.
Blank == Line("blank", 0, "", 0)
\* A line of plain text number t.
Txt(t) == Line("txt", t, "", 0)
\* A line of plain text number t that is n characters long (c = 0 above: a
\* length that does not matter, below SummaryKeep).
TxtOf(t, n) == Line("txt", t, "", n)
\* "r<rev> | <who> | <date> | <n> lines": a = rev, b = who/date id, c = n.
Hdr(rev, who, n) == Line("hdr", rev, who, n)
\* "Imported from <url>@<rev>".
Imp(rev) == Line("imp", rev, "", 0)
\* "Committed by <who> at <when>"; when = 0 is the text "None".
Cby(who, when) == Line("cby", 0, who, when)
\* "commit <hash>", the first line of a commit in git log.
CommitLn(id) == Line("commit", id, "", 0)

\* reRevis.match(line) is not None
reRevis(line) == line.k = "hdr"
\* reCommit.match(line) is not None
reCommit(line) == line.k = "commit"
\* reImport.match(line) is not None
reImport(line) == line.k = "imp"
\* reAuthor.match(line) is not None: the date must begin with a digit, which
\* the text "None" does not.
reAuthor(line) == line.k = "cby" /\ line.c # 0

\* ------------------------------------------------------------- sequences
RECURSIVE SeqMin(_)
SeqMin(s) == IF Len(s) = 1 THEN s[1]
             ELSE LET m == SeqMin(Tail(s)) IN IF s[1] <= m THEN s[1] ELSE m

\* list.index(x): the first position holding x (1-based here).
IndexOf(s, x) == CHOOSE i \in 1..Len(s) : s[i] = x /\ \A j \in 1..(i-1) : s[j] # x

RECURSIVE Concat(_)
Concat(ss) == IF ss = <<>> THEN <<>> ELSE Head(ss) \o Concat(Tail(ss))

\* ------------------------------------------------------------ SvnRevRange
\* A parsed range: start = -1 BASE, end = -1 HEAD, 0 absent.
Range(s, e) == [start |-> s, end |-> e]

\* A specifier is a sequence of tokens: decimal digits, the colon, the
\* minus sign, the keywords and other text.
Digits == <<"1", "2", "3", "4", "5", "6", "7", "8", "9">>
IsDigit(t) == \E d \in 1..Len(Digits) : Digits[d] = t
DigitVal(t) == CHOOSE d \in 1..Len(Digits) : Digits[d] = t

\* revstr.split(":")
RECURSIVE Split(_)
Split(revstr) ==
  IF \E k \in 1..Len(revstr) : revstr[k] = ":"
  THEN LET k == IndexOf(revstr, ":")
       IN <<SubSeq(revstr, 1, k - 1)>> \o Split(SubSeq(revstr, k + 1, Len(revstr)))
  ELSE <<revstr>>

\* Whether int(text) returns: digits, with a sign or without.
IsInt(text) ==
  LET digits == IF text # <<>> /\ text[1] = "-" THEN Tail(text) ELSE text
  IN digits # <<>> /\ \A k \in 1..Len(digits) : IsDigit(digits[k])

\* A conversion that reads the last digit only.
Decimal_last(digits) == IF digits = <<>> THEN 0 ELSE DigitVal(digits[Len(digits)])

\* The number a sequence of digits writes.
RECURSIVE Decimal(_)
Decimal(digits) ==
  IF digits = <<>> THEN 0
  ELSE 10 * Decimal(SubSeq(digits, 1, Len(digits) - 1)) + DigitVal(digits[Len(digits)])

\* int(text), for a text int() takes.
IntOf(text) == IF text[1] = "-" THEN 0 - Decimal(Tail(text)) ELSE Decimal(text)

\* SvnRevRange.__init__: err when quitOnFail ends the run or int() raises
\* ValueError, which nothing catches.
SvnRevRange(revstr) ==
  LET revs == Split(revstr)
      ok(s, e) == [err |-> FALSE, start |-> s, end |-> e]
      bad == [err |-> TRUE, start |-> -1, end |-> -1]
  IN IF Len(revs) > 2 THEN bad
     ELSE IF Len(revs) = 2
     THEN IF (revs[1] # <<>> /\ ~IsInt(revs[1])) \/ (revs[2] # <<>> /\ ~IsInt(revs[2]))
          THEN bad
          ELSE ok(IF revs[1] # <<>> THEN IntOf(revs[1]) ELSE -1,
                  IF revs[2] # <<>> THEN IntOf(revs[2]) ELSE -1)
     ELSE IF revstr = <<"HEAD">> THEN ok(0, -1)
     ELSE IF revstr = <<"BASE">> THEN ok(-1, 0)
     ELSE IF revs[1] # <<>>
     THEN IF IsInt(revs[1]) THEN ok(IntOf(revs[1]), 0) ELSE bad
     ELSE ok(-1, 0)

\* SvnRevRange.revString: the -r argument.  s = 0 or e = 0 is an empty side,
\* e = -1 is the keyword HEAD.
revString(r) ==
  [s |-> IF r.start < 0 THEN 1 ELSE r.start,
   e |-> IF r.end < 0 THEN -1 ELSE r.end]

\* The working directories of the process: the one the script is started
\* in, and git_dir.
StartDir == "start"
GitDir == "git_dir"

\* -------------------------------------------------------------- variables
VARIABLES
  trunk,        \* the revisions of the source URL (a subset of 1..MaxRev)
  svnmsg,       \* revision -> its log message, a sequence of lines
  snaps,        \* revision -> the tree svn export gives for it
  revlist,      \* the --rev arguments, parsed: a sequence of ranges
  keep_dates,   \* preserve_dates: FALSE under --use-current-date
  tag_rev_list, \* the revision of each tag found under --tags
  tag_str_list, \* the name of each tag, same order
  branch_name,  \* the branch asked for with --branch, "master" without it
  author_table, \* the file given with --author-table, NoTable without one
  default_author, \* --default-author, None without it
  svn_auth,     \* svn_author: FALSE under --ignore-svn-author
  revargs,      \* the --rev specifiers read so far, each a sequence of tokens
  gitBranches,  \* the branches of the target other than master
  cwd,          \* os.getcwd(): the working directory of the process
  setup,        \* history: what git_setup_dir asked of findParentCommit, and
                \* whether it printed 'No commits in range'
  repo,         \* whether git_dir holds a repository
  commits,      \* the commits of master, oldest first
  gitTags,      \* the annotated tags of the target
  worktree,     \* the files of git_dir
  index,        \* the paths git tracks (the index)
  staging,      \* the files of export_dir
  pc,           \* where the run is
  run,          \* how many runs have been started
  auth_table,   \* _main_func: the author table of the run, as parsed
  gitRevs,      \* _main_func: the revisions found in the target history
  svn_log,      \* _main_func: the entries kept for replay
  ri,           \* _main_func: the range being captured
  logs,         \* _main_func: the sorted entries
  li,           \* _main_func: the entry being replayed
  bi,           \* processRevision: the boilerplate file being copied
  orphans1,     \* processRevision: files to add, not yet added
  orphans2,     \* processRevision: files to remove, not yet removed
  num_changes,  \* processRevision: the change count
  status,       \* the exit status of the run that ended last
  ops,          \* history: the operations issued by the current run
  prev,         \* history: how the run before the current one ended
  start_commits,\* history: the commits there were when the run started
  diff0,        \* history: whether the export differed from the working copy
  skipped       \* history: the revisions the current run logged as skipped

envvars == <<trunk, svnmsg, snaps, revlist, keep_dates, tag_rev_list, tag_str_list,
            branch_name, author_table, default_author, svn_auth>>
setupvars == <<revargs, gitBranches, setup>>
repovars == <<repo, commits, gitTags, worktree, index, staging>>
runvars == <<pc, run, auth_table, gitRevs, svn_log, ri, logs, li, bi, orphans1, orphans2,
             num_changes, status, ops, prev, start_commits, diff0, skipped, cwd>>
vars == <<envvars, setupvars, repovars, runvars>>

\* ---------------------------------------------------------------- svn log
\* The revisions "svn log -r<revstr>" lists, in the order it lists them: one
\* revision when a side is empty, else from s to e, HEAD being MaxRev.
RECURSIVE Ascending(_, _)
Ascending(lo, hi) == IF lo > hi THEN <<>> ELSE <<lo>> \o Ascending(lo + 1, hi)
RECURSIVE Reverse(_)
Reverse(s) == IF s = <<>> THEN <<>> ELSE Reverse(Tail(s)) \o <<s[1]>>

ListedRevs(rs) ==
  LET hd(x) == IF x = -1 THEN MaxRev ELSE x
      all == IF rs.s = 0 THEN <<hd(rs.e)>>
             ELSE IF rs.e = 0 THEN <<rs.s>>
             ELSE IF rs.s <= hd(rs.e) THEN Ascending(rs.s, hd(rs.e))
             ELSE Reverse(Ascending(hd(rs.e), rs.s))
  IN SelectSeq(all, LAMBDA r : r \in trunk)

\* The committer svn records for revision r.
Committers == <<"bob", "carol", "amy@x.org">>
SvnWho(r) == Committers[((r - 1) % Len(Committers)) + 1]

\* The text of one log entry: header, blank line, message, divider.
LogBlock(r) == <<Hdr(r, SvnWho(r), Len(svnmsg[r])), Blank>> \o svnmsg[r] \o <<Div>>

\* The output of "svn log --stop-on-copy -r<revstr> <url>", as lines.
SvnLogText(rs) ==
  LET revs == ListedRevs(rs)
  IN <<Div>> \o Concat([i \in 1..Len(revs) |-> LogBlock(revs[i])])

\* ------------------------------------------------------------- TagResolver
\* A search that takes the closest tag whatever the next revision is.
tag_rev_search_any(rev, rev_next, trl) ==
  LET tag_abv_list == SelectSeq(trl, LAMBDA t : t >= rev)
  IN IF tag_abv_list = <<>> THEN [err |-> TRUE, idx |-> -1]
     ELSE [err |-> FALSE, idx |-> CHOOSE k \in 1..Len(trl) : trl[k] = tag_abv_list[1]]

\* tag_rev_search: idx is the position of the chosen tag (1-based), -1 for no
\* tag; err is the ValueError int() raises on the text '' and min() on an
\* empty list.
tag_rev_search(rev, rev_next, trl) ==
  LET tag_abv_list == SelectSeq(trl, LAMBDA t : t >= rev)
  IN IF \E k \in 1..Len(trl) : trl[k] = NoRev THEN [err |-> TRUE, idx |-> -1]
     ELSE IF tag_abv_list = <<>> THEN [err |-> TRUE, idx |-> -1]
     ELSE LET tag_rev_close == SeqMin(tag_abv_list)
          IN IF tag_rev_close < rev_next
             THEN [err |-> FALSE, idx |-> IndexOf(trl, tag_rev_close)]
             ELSE [err |-> FALSE, idx |-> -1]

\* next_revision_val: the revision of the first line that matches reRevis.
RECURSIVE next_revision_val(_)
next_revision_val(log_lines) ==
  IF log_lines = <<>> THEN MaxSize
  ELSE IF reRevis(log_lines[1]) THEN log_lines[1].a
  ELSE next_revision_val(Tail(log_lines))

\* --------------------------------------------------------------- LogParser
\* SvnLogEntry(rev, who, when, url, lines, tag)
SvnLogEntry(rev, who, when, lines, tag) ==
  [rev |-> rev, who |-> who, when |-> when, msg |-> lines, tag |-> tag]

\* ---------------------------------------------------------- AuthorResolver
\* No author table was given (auth_table = None).  A table is a set of
\* entries [svn |-> identity, git |-> author]; warned is history: the
\* identities of the warnings printed while the table was in use.
NoTable == [given |-> FALSE, tab |-> {}, warned |-> <<>>]

\* parseAuthorTable: the entries of the file, one for each well-formed line.
parseAuthorTable(file) == file

\* The part of an identity before its '@' (who[:who.find("@")]), None when
\* it has none.  The identities with an '@' are those of Committers.
who_name_lost(who) == None

who_name(who) == IF who = "amy@x.org" THEN "amy" ELSE None

\* The table after "WARNING: Author, ..., not found in author table" is
\* printed for who.
Warned(auth, who) == [auth EXCEPT !.warned = Append(@, who)]

\* A default substituted that is not remembered in the table.
ResolveAuthor_forgets(who, auth, svn_a, default) ==
  IF auth.given
  THEN IF \E e \in auth.tab : e.svn = who
       THEN [who |-> (CHOOSE e \in auth.tab : e.svn = who).git, auth |-> auth]
       ELSE IF default # None
       THEN [who |-> default, auth |-> Warned(auth, who)]
       ELSE IF who_name(who) # None
       THEN [who |-> who_name(who) \o " : <" \o who \o ">", auth |-> Warned(auth, who)]
       ELSE [who |-> who \o " : <missing_email@missing.email>", auth |-> Warned(auth, who)]
  ELSE IF ~svn_a THEN [who |-> None, auth |-> auth]
  ELSE [who |-> who, auth |-> auth]

\* The author svn_capture_log gives an entry whose header names who, and the
\* table after it (a default substituted is remembered in the table).
ResolveAuthor(who, auth, svn_a, default) ==
  IF auth.given
  THEN IF \E e \in auth.tab : e.svn = who
       THEN [who |-> (CHOOSE e \in auth.tab : e.svn = who).git, auth |-> auth]
       ELSE IF default # None
       THEN [who |-> default,
             auth |-> [Warned(auth, who) EXCEPT !.tab = @ \cup {[svn |-> who, git |-> default]}]]
       ELSE IF who_name(who) # None
       THEN [who |-> who_name(who) \o " : <" \o who \o ">", auth |-> Warned(auth, who)]
       ELSE [who |-> who \o " : <missing_email@missing.email>", auth |-> Warned(auth, who)]
  ELSE IF ~svn_a THEN [who |-> None, auth |-> auth]
  ELSE [who |-> who, auth |-> auth]

\* The state of the loop of svn_capture_log before any line is read.
ParseStart ==
  [nlines |-> 0, lines |-> <<>>, skip |-> FALSE, rev |-> 0, who |-> None,
   when |-> 0, rev_next |-> MaxSize, logs |-> <<>>, crash |-> FALSE, auth |-> NoTable,
   heads |-> <<>>]

\* The tag label of a completed block (lines 819-836).
BlockTag(st, trl, tsl) ==
  IF trl # <<>>
  THEN LET r == tag_rev_search(st.rev, st.rev_next, trl)
       IN [err |-> r.err, tag |-> IF r.idx # -1 THEN tsl[r.idx] ELSE None]
  ELSE [err |-> FALSE, tag |-> None]

\* "Look ahead for next revision" (lines 846-854), at the header in line i.
LookAhead(log_lines, i) ==
  IF i < Len(log_lines) - 1
  THEN next_revision_val(SubSeq(log_lines, i + 1, Len(log_lines)))
  ELSE MaxSize

\* One turn of the loop over log_lines, for line number i (line_cnt); heads
\* is history: the headers read, each with the next revision found for it.
ParseLine(log_lines, i, st, svn_a, keep, default, trl, tsl) ==
  LET line == log_lines[i]
      author == ResolveAuthor(line.b, st.auth, svn_a, default)
  IN
  IF (~st.skip) /\ st.nlines > 0
  THEN LET ls == Append(st.lines, line) IN
       IF st.nlines - 1 = 0
       THEN LET t == BlockTag(st, trl, tsl) IN
            IF t.err THEN [st EXCEPT !.crash = TRUE]
            ELSE [st EXCEPT !.nlines = 0, !.lines = <<>>,
                            !.logs = Append(@, SvnLogEntry(st.rev, st.who, st.when, ls, t.tag))]
       ELSE [st EXCEPT !.nlines = @ - 1, !.lines = ls]
  ELSE IF reRevis(line)
  THEN [st EXCEPT !.rev = line.a, !.who = author.who, !.auth = author.auth,
                  !.rev_next = LookAhead(log_lines, i),
                  !.heads = Append(@, [rev |-> line.a, rev_next |-> LookAhead(log_lines, i)]),
                  !.when = IF keep THEN line.a ELSE 0,
                  !.nlines = line.c, !.skip = TRUE]
  ELSE [st EXCEPT !.skip = FALSE]

RECURSIVE ParseFrom(_, _, _, _, _, _, _, _)
ParseFrom(log_lines, i, st, svn_a, keep, default, trl, tsl) ==
  IF i > Len(log_lines) \/ st.crash THEN st
  ELSE ParseFrom(log_lines, i + 1,
                 ParseLine(log_lines, i, st, svn_a, keep, default, trl, tsl),
                 svn_a, keep, default, trl, tsl)

\* svn_capture_log: the entries parsed from the log of one range; crash when
\* an exception ends the run inside it.  trl = <<>> is "no tag list".
svn_capture_log(rs, auth, svn_a, keep, default, trl, tsl) ==
  LET st == ParseFrom(SvnLogText(rs), 1, [ParseStart EXCEPT !.auth = auth],
                      svn_a, keep, default, trl, tsl)
  IN [crash |-> st.crash, logs |-> st.logs, auth |-> st.auth, heads |-> st.heads]

\* ---------------------------------------------------------- commit message
\* The line 'Original svn commit message:'.
OrigLine == Line("txt", 0, "Original svn commit message:", 0)

\* A first line that is never cut.
short_first_line_whole(line) == line

\* "First, create a short first line": message[0][0:68] + ' ...' when the
\* line has more than 72 characters.  Only plain text is that long here.
short_first_line(line) ==
  IF line.k = "txt" /\ line.c > SummaryMax
  THEN Line("txt", line.a, " ...", SummaryKeep + Len(<<" ", ".", ".", ".">>))
  ELSE line

\* SvnLogEntry.formatLogMessage.
formatLogMessage(log) ==
  <<short_first_line(log.msg[1]), Blank, Imp(log.rev), Cby(log.who, log.when),
    OrigLine, Blank>> \o log.msg

\* A line with a quote character put before or after it: none of the
\* expressions matches it any more.
Quoted(line) == [line EXCEPT !.k = "quoted"]

\* gitCommitAll's full_message = "'" + message + "'": the quotes reach git
\* as part of the text, on the first and on the last line.
full_message(message) ==
  [i \in 1..Len(message) |->
     IF i = 1 \/ i = Len(message) THEN Quoted(message[i]) ELSE message[i]]

\* ------------------------------------------------------------ HistoryIndex
\* The lines "git log" prints for one commit.
GitLogBlock(c) ==
  <<CommitLn(c.id), Line("txt", 0, "Author:", 0), Line("txt", 0, "Date:", 0), Blank>>
  \o c.msg \o <<Blank>>

\* The output of "git log": the commits, newest first.
GitLogText(cs) == Concat([i \in 1..Len(cs) |-> GitLogBlock(cs[Len(cs) + 1 - i])])

\* Git2svnLogEntry(gcommit, svnRev, svnWho, svnWhen, svnURL)
Git2svnLogEntry(commit, rev, who, when) ==
  [commit |-> commit, rev |-> rev, who |-> who, when |-> when]

\* One turn of the loop of gitCaptureLog.
ScanLine(line, st) ==
  LET s1 == IF reCommit(line)
            THEN [st EXCEPT !.commit = line.a, !.status = 8]
            ELSE st
      s2 == IF reImport(line)
            THEN [s1 EXCEPT !.rev = line.a, !.status = @ + 4]
            ELSE s1
      s3 == IF reAuthor(line)
            THEN [s2 EXCEPT !.who = line.b, !.when = line.c, !.status = @ + 3]
            ELSE s2
  IN IF s3.status = 15
     THEN [s3 EXCEPT !.logs = Append(@, Git2svnLogEntry(s3.commit, s3.rev, s3.who, s3.when)),
                     !.status = 0]
     ELSE s3

\* The loop over the lines; st.i is the position of the loop.
RECURSIVE ScanFrom(_, _)
ScanFrom(lines, st) ==
  IF st.i > Len(lines) THEN st
  ELSE ScanFrom(lines, [ScanLine(lines[st.i], st) EXCEPT !.i = @ + 1])

\* gitCaptureLog: the records recovered from the history, newest first.
gitCaptureLog(cs) ==
  ScanFrom(GitLogText(cs),
           [i |-> 1, status |-> 0, commit |-> 0, rev |-> 0, who |-> None, when |-> 0,
            logs |-> <<>>]).logs

\* A search that also takes a record of the revision asked for.
RECURSIVE findParentCommit_le(_, _)
findParentCommit_le(gitLog, svnRev) ==
  IF gitLog = <<>> THEN 0
  ELSE IF gitLog[1].rev <= svnRev THEN gitLog[1].commit
  ELSE findParentCommit_le(Tail(gitLog), svnRev)

\* findParentCommit: 0 stands for "no commit".
RECURSIVE findParentCommit(_, _)
findParentCommit(gitLog, svnRev) ==
  IF gitLog = <<>> THEN 0
  ELSE IF gitLog[1].rev < svnRev THEN gitLog[1].commit
  ELSE findParentCommit(Tail(gitLog), svnRev)

\* -------------------------------------------------------------------- trees
\* A path is the directory os.walk reports (root, as characters) and a file
\* name.  A tree maps each path to what is there: "absent", the content and
\* mode of a regular file ("c1", "c1p", "c2", "boiler"), or "dangling", a
\* symbolic link whose target does not exist.
Path(root, file) == [root |-> root, file |-> file]
TopDir == <<".">>
GithubDir == <<".", "/", ".", "g", "i", "t", "h", "u", "b">>
TestDir == <<".", "/", "t", "e", "s", "t", "/", "s", "y", "s", "t", "e", "m">>

\* An ordinary file, a file of a directory whose name begins with ".git",
\* the build scripts cam_svn_to_git_mods rewrites (one path stands for the
\* twelve), and the boilerplate files.
PA == Path(TopDir, "a")
PG == Path(GithubDir, "w")
PCAM == Path(TestDir, "test_driver.sh")
PIGN == Path(TopDir, ".gitignore")
PTGIT == Path(TestDir, "TGIT.sh")

\* The order in which os.walk reports the files.
WalkOrder == <<PIGN, PA, PG, PCAM, PTGIT>>
Paths == {WalkOrder[i] : i \in 1..Len(WalkOrder)}

EmptyTree == [p \in Paths |-> "absent"]

\* cam_copy_files, the boilerplate files (.config_files.xml goes with
\* .gitignore and is not modelled apart).
cam_copy_files == {".gitignore", "TGIT.sh"}

\* Where processRevision puts each boilerplate file (dst_path).
BoilerDst == <<PIGN, PTGIT>>

\* os.path.exists: a symbolic link without target does not exist.
Exists(tree, p) == tree[p] \notin {"absent", "dangling"}

\* groot = os.path.join(".", ".git")
groot == <<".", "/", ".", "g", "i", "t">>

\* root[0:len(groot)] != groot
OutsideGit(root) ==
  SubSeq(root, 1, IF Len(root) < Len(groot) THEN Len(root) ELSE Len(groot)) # groot

\* FindTreeOrphans(dir1, dir2): the files of dir1 that do not exist in dir2.
FindTreeOrphans(dir1, dir2) ==
  SelectSeq(WalkOrder,
            LAMBDA p : dir1[p] # "absent" /\ OutsideGit(p.root) /\ ~Exists(dir2, p))

\* "file not in cam_copy_files": file is the path relative to the tree, so
\* only a file of the top directory can be in the list.
InCamCopyFiles(p) == p.root = TopDir /\ p.file \in cam_copy_files

\* file_diff(file1, file2), file1 existing.
file_diff(c1, c2) == c2 \in {"absent", "dangling"} \/ c1 # c2

\* copySvn2Git raises OSError at os.stat(file1) when file1 is a dangling link
\* and file2 exists.
CopyCrashes(svnDir, gitDir) ==
  \E p \in Paths : svnDir[p] = "dangling" /\ Exists(gitDir, p)

\* The files copySvn2Git copies: those that differ, bad symlinks left out.
Copied(svnDir, gitDir) ==
  {p \in Paths : svnDir[p] \notin {"absent", "dangling"} /\ file_diff(svnDir[p], gitDir[p])}

\* copySvn2Git: the new git directory and num_copies.
copySvn2Git(svnDir, gitDir) ==
  [tree |-> [p \in Paths |-> IF p \in Copied(svnDir, gitDir) THEN svnDir[p] ELSE gitDir[p]],
   num_copies |-> Cardinality(Copied(svnDir, gitDir))]

\* file_sub_text: "c1" holds a pattern and is rewritten to "c1p"; the other
\* contents hold none and are written back as they were.
file_sub_text(c) == IF c = "c1" THEN "c1p" ELSE c

\* cam_svn_to_git_mods returns num_changes, one per file whatever was
\* substituted in it.
cam_svn_to_git_mods == CamMods

\* A staging directory that is left as it is.
rmtree_kept(dir) == dir

\* shutil.rmtree(exportDir): nothing of the directory is left.
rmtree(dir) == EmptyTree

\* svn export writes the files of the revision into the directory.
svn_export(dir, snap) == [p \in Paths |-> IF snap[p] # "absent" THEN snap[p] ELSE dir[p]]

\* svnExport: the staging directory after it; a failed export leaves what
\* rmtree left.
svnExport(exportDir, snap, retcode) ==
  IF retcode = 0 THEN svn_export(rmtree(exportDir), snap) ELSE rmtree(exportDir)

\* The tree "git commit -a" records: the tracked files as they are on disk.
CommitTree(wt, idx) == [p \in Paths |-> IF p \in idx THEN wt[p] ELSE "absent"]

\* The paths added, removed or changed between the staging snapshot and the
\* working copy; a dangling link of the snapshot is in none of the three.
TreeDiff(stg, wt) == {p \in Paths : stg[p] # "dangling" /\ stg[p] # wt[p]}

\* The tree of HEAD.
HeadTree == IF commits = <<>> THEN EmptyTree ELSE commits[Len(commits)].tree

\* ------------------------------------------------------------------- helpers
\* A quitOnFail that reports the failure and returns.
quitOnFail_returns(retcode) == FALSE

\* quitOnFail(retcode, caller): whether it ends the run.
quitOnFail(retcode) == retcode # 0

\* sorted(svn_log, key = lambda x: x.revNum()): a stable sort.
RECURSIVE Insert(_, _)
Insert(x, s) ==
  IF s = <<>> THEN <<x>>
  ELSE IF s[1].rev <= x.rev THEN <<s[1]>> \o Insert(x, Tail(s))
  ELSE <<x>> \o s

RECURSIVE SortRev(_)
SortRev(s) ==
  IF s = <<>> THEN <<>> ELSE Insert(s[Len(s)], SortRev(SubSeq(s, 1, Len(s) - 1)))

\* The entries left in the order of capture.
sorted_skipped(s) == s

sorted(s) == SortRev(s)

\* The revisions of a sequence of entries.
RevsOf(s) == {s[i].rev : i \in 1..Len(s)}

\* "if log.revNum() not in gitRevs" (lines 2018-2025): the entries kept.
NotInGit(ls, grevs) == SelectSeq(ls, LAMBDA l : l.rev \notin grevs)

\* The entry being replayed.
log == logs[li]

\* One more operation in the history of the run.
Op(name, retcode) == Append(ops, [rev |-> log.rev, op |-> name, ok |-> retcode = 0])

\* The run ends with a non-zero status.
Abort(code) == pc' = "aborted" /\ status' = code

Running == pc \in {"svnlog", "export", "rm", "add", "mods", "commit", "tag"}

\* ------------------------------------------------------------------- actions
\* _main_func up to the capture of the logs: git_setup_dir makes the
\* repository if there is none, gitCaptureLog reads the history.
Start ==
  /\ pc \in {"idle", "ready", "done", "aborted", "killed"}
  /\ branch_name # "master" => pc = "ready"
  /\ run < MaxRuns
  /\ run' = run + 1
  /\ repo' = TRUE
  /\ gitRevs' = RevsOf(gitCaptureLog(commits))
  /\ svn_log' = <<>> /\ ri' = 1 /\ logs' = <<>> /\ li' = 1 /\ bi' = 1
  /\ orphans1' = <<>> /\ orphans2' = <<>> /\ num_changes' = 0
  /\ ops' = <<>> /\ skipped' = {}
  /\ prev' = pc /\ start_commits' = commits
  /\ pc' = "svnlog"
  /\ auth_table' = parseAuthorTable(author_table)
  /\ cwd' = StartDir
  /\ UNCHANGED <<envvars, setupvars, commits, gitTags, worktree, index, staging, status, diff0>>

\* One turn of "for rev in revlist": capture the log of a range and keep the
\* entries that are not in the history.
CaptureRange ==
  /\ pc = "svnlog" /\ ri <= Len(revlist)
  /\ LET r == svn_capture_log(revString(revlist[ri]), auth_table, svn_auth, keep_dates,
                              default_author, tag_rev_list, tag_str_list)
     IN /\ auth_table' = r.auth
        /\ IF r.crash
           THEN /\ Abort(1)
                /\ UNCHANGED <<svn_log, ri, skipped>>
           ELSE /\ svn_log' = svn_log \o NotInGit(r.logs, gitRevs)
                /\ skipped' = skipped \cup (RevsOf(r.logs) \cap gitRevs)
                /\ ri' = ri + 1
                /\ UNCHANGED <<pc, status>>
  /\ UNCHANGED <<envvars, cwd, setupvars, repovars, run, gitRevs, logs, li, bi, orphans1, orphans2,
                 num_changes, ops, prev, start_commits, diff0>>

\* The sort of the entries, and the end of the run when there is none.
SortLogs ==
  /\ pc = "svnlog" /\ ri > Len(revlist)
  /\ logs' = sorted(svn_log)
  /\ li' = 1
  /\ IF svn_log = <<>> THEN pc' = "done" /\ status' = 0
                       ELSE pc' = "export" /\ UNCHANGED status
  /\ UNCHANGED <<envvars, cwd, setupvars, auth_table, repovars, run, gitRevs, svn_log, ri, bi, orphans1, orphans2,
                 num_changes, ops, skipped, prev, start_commits, diff0>>

\* processRevision, svnExport and the two calls of FindTreeOrphans.
Export ==
  /\ pc = "export"
  /\ \E retcode \in {0, 1} :
       /\ ops' = Op("export", retcode)
       /\ staging' = svnExport(staging, snaps[log.rev], retcode)
       /\ IF quitOnFail(retcode)
          THEN Abort(retcode) /\ UNCHANGED <<orphans1, orphans2, num_changes>>
          ELSE /\ orphans1' = FindTreeOrphans(staging', worktree)
               /\ orphans2' = FindTreeOrphans(worktree, staging')
               /\ num_changes' = 0
               /\ pc' = "rm" /\ UNCHANGED status
  /\ bi' = 1
  /\ diff0' = (TreeDiff(staging', worktree) # {})
  /\ UNCHANGED <<envvars, cwd, setupvars, auth_table, repo, commits, gitTags, worktree, index, run, gitRevs,
                 svn_log, ri, logs, li, skipped, prev, start_commits>>

\* One turn of "for file in orphans2": gitRmFile.  git rm fails on a file it
\* does not track.
RmFile ==
  /\ pc = "rm" /\ orphans2 # <<>>
  /\ LET file == orphans2[1] IN
     IF InCamCopyFiles(file)
     THEN /\ orphans2' = Tail(orphans2)
          /\ UNCHANGED <<worktree, index, num_changes, ops, pc, status>>
     ELSE \E retcode \in IF file \in index THEN {0, 1} ELSE {1} :
            /\ ops' = Op("rm", retcode)
            /\ IF retcode = 0
               THEN /\ index' = index \ {file}
                    /\ worktree' = [worktree EXCEPT ![file] = "absent"]
               ELSE UNCHANGED <<index, worktree>>
            /\ IF quitOnFail(retcode)
               THEN Abort(retcode) /\ UNCHANGED <<orphans2, num_changes>>
               ELSE /\ orphans2' = Tail(orphans2)
                    /\ num_changes' = num_changes + 1
                    /\ UNCHANGED <<pc, status>>
  /\ UNCHANGED <<envvars, cwd, setupvars, auth_table, repo, commits, gitTags, staging, run, gitRevs, svn_log, ri,
                 logs, li, bi, orphans1, skipped, prev, start_commits, diff0>>

\* copySvn2Git, after the last removal.
Copy ==
  /\ pc = "rm" /\ orphans2 = <<>>
  /\ IF CopyCrashes(staging, worktree)
     THEN Abort(1) /\ UNCHANGED <<worktree, num_changes>>
     ELSE /\ worktree' = copySvn2Git(staging, worktree).tree
          /\ num_changes' = num_changes + copySvn2Git(staging, worktree).num_copies
          /\ pc' = "add" /\ UNCHANGED status
  /\ UNCHANGED <<envvars, cwd, setupvars, auth_table, repo, commits, gitTags, index, staging, run, gitRevs, svn_log,
                 ri, logs, li, bi, orphans1, orphans2, ops, skipped, prev, start_commits, diff0>>

\* gitAddFile for a file that does not exist: os.chdir(repo), and the
\* os.chdir(currdir) under "if os.path.exists(filename)" is not reached.
gitAddFile_missing(currdir, repo_dir) == repo_dir

\* One turn of "for file in orphans1": gitAddFile, which does nothing for a
\* file that does not exist; the change is counted either way.
AddFile ==
  /\ pc = "add" /\ orphans1 # <<>>
  /\ LET file == orphans1[1] IN
     IF Exists(worktree, file)
     THEN \E retcode \in {0, 1} :
            /\ ops' = Op("add", retcode)
            /\ index' = IF retcode = 0 THEN index \cup {file} ELSE index
            /\ UNCHANGED cwd
            /\ IF quitOnFail(retcode)
               THEN Abort(retcode) /\ UNCHANGED <<orphans1, num_changes>>
               ELSE /\ orphans1' = Tail(orphans1)
                    /\ num_changes' = num_changes + 1
                    /\ UNCHANGED <<pc, status>>
     ELSE /\ orphans1' = Tail(orphans1)
          /\ num_changes' = num_changes + 1
          /\ cwd' = gitAddFile_missing(cwd, GitDir)
          /\ UNCHANGED <<index, ops, pc, status>>
  /\ UNCHANGED <<envvars, setupvars, auth_table, repo, commits, gitTags, worktree, staging, run, gitRevs,
                 svn_log, ri, logs, li, bi, orphans2, skipped, prev, start_commits, diff0>>

\* One turn of "for file in cam_copy_files", after the last addition: copy
\* the boilerplate file if it differs and gitAddFile it if it was not there.
\* shutil.copy2 raises IOError when the directory of dst_path is missing.
Boiler ==
  /\ pc = "add" /\ orphans1 = <<>>
  /\ LET dst == BoilerDst[bi]
         needs_add == ~Exists(worktree, dst)
         differs == file_diff("boiler", worktree[dst])
         nodir == \A p \in Paths : p.root = dst.root => worktree[p] = "absent"
         last == bi = Len(BoilerDst)
     IN IF differs /\ dst.root # TopDir /\ nodir
        THEN Abort(1) /\ UNCHANGED <<worktree, index, num_changes, ops, bi>>
        ELSE /\ worktree' = [worktree EXCEPT ![dst] = "boiler"]
             /\ num_changes' = IF differs THEN num_changes + 1 ELSE num_changes
             /\ IF needs_add
                THEN \E retcode \in {0, 1} :
                       /\ ops' = Op("add", retcode)
                       /\ index' = IF retcode = 0 THEN index \cup {dst} ELSE index
                       /\ IF quitOnFail(retcode)
                          THEN Abort(retcode) /\ UNCHANGED bi
                          ELSE /\ bi' = IF last THEN 1 ELSE bi + 1
                               /\ pc' = IF last THEN "mods" ELSE "add"
                               /\ UNCHANGED status
                ELSE /\ bi' = IF last THEN 1 ELSE bi + 1
                     /\ pc' = IF last THEN "mods" ELSE "add"
                     /\ UNCHANGED <<index, ops, status>>
  /\ UNCHANGED <<envvars, cwd, setupvars, auth_table, repo, commits, gitTags, staging, run, gitRevs, svn_log, ri,
                 logs, li, orphans1, orphans2, skipped, prev, start_commits, diff0>>

\* cam_svn_to_git_mods: file_sub_text raises OSError at os.stat when a build
\* script is missing; else the scripts are rewritten and counted.
Mods ==
  /\ pc = "mods"
  /\ IF ~Exists(worktree, PCAM)
     THEN Abort(1) /\ UNCHANGED <<worktree, num_changes>>
     ELSE /\ worktree' = [worktree EXCEPT ![PCAM] = file_sub_text(@)]
          /\ num_changes' = num_changes + cam_svn_to_git_mods
          /\ pc' = "commit" /\ UNCHANGED status
  /\ UNCHANGED <<envvars, cwd, setupvars, auth_table, repo, commits, gitTags, index, staging, run, gitRevs, svn_log,
                 ri, logs, li, bi, orphans1, orphans2, ops, skipped, prev, start_commits, diff0>>

\* A commit: rev is history, the revision the commit was made for.
NewCommit(l) ==
  [id |-> Len(commits) + 1, rev |-> l.rev, msg |-> full_message(formatLogMessage(l)),
   author |-> l.who, tree |-> CommitTree(worktree, index)]

\* "if num_changes > 0: gitCommitAll(...)".  git commit fails when the tree
\* to record is the tree of HEAD.
Commit ==
  /\ pc = "commit"
  /\ IF num_changes > 0
     THEN \E retcode \in IF CommitTree(worktree, index) # HeadTree THEN {0, 1} ELSE {1} :
            /\ ops' = Op("commit", retcode)
            /\ commits' = IF retcode = 0 THEN Append(commits, NewCommit(log)) ELSE commits
            /\ IF quitOnFail(retcode)
               THEN Abort(retcode)
               ELSE pc' = "tag" /\ UNCHANGED status
     ELSE pc' = "tag" /\ UNCHANGED <<commits, ops, status>>
  /\ UNCHANGED <<envvars, cwd, setupvars, auth_table, repo, gitTags, worktree, index, staging, run, gitRevs, svn_log,
                 ri, logs, li, bi, orphans1, orphans2, num_changes, skipped, prev, start_commits, diff0>>

\* An entry whose tag is lost.
TagOf_lost(l) == None

\* The tag of an entry (SvnLogEntry.tag).
TagOf(l) == l.tag

\* "if (tag is not None): gitApplyTag(...)", and the end of processRevision.
\* git tag fails when the name is taken or when there is no commit to tag.
Tag ==
  /\ pc = "tag"
  /\ LET tag == TagOf(log)
         free == commits # <<>> /\ \A t \in gitTags : t.name # tag
         next == /\ li' = li + 1
                 /\ IF li = Len(logs) THEN pc' = "done" /\ status' = 0
                                      ELSE pc' = "export" /\ UNCHANGED status
     IN IF tag # None
        THEN \E retcode \in IF free THEN {0, 1} ELSE {1} :
               /\ ops' = Op("tag", retcode)
               /\ gitTags' = IF retcode = 0
                             THEN gitTags \cup {[name |-> tag, commit |-> Len(commits),
                                                 msg |-> formatLogMessage(log)]}
                             ELSE gitTags
               /\ IF quitOnFail(retcode)
                  THEN Abort(retcode) /\ UNCHANGED li
                  ELSE next
        ELSE next /\ UNCHANGED <<gitTags, ops>>
  /\ UNCHANGED <<envvars, cwd, setupvars, auth_table, repo, commits, worktree, index, staging, run, gitRevs, svn_log,
                 ri, logs, bi, orphans1, orphans2, num_changes, skipped, prev, start_commits, diff0>>

\* The run is interrupted from outside.
Kill ==
  /\ Running
  /\ pc' = "killed" /\ status' = 1
  /\ UNCHANGED <<envvars, cwd, setupvars, auth_table, repovars, run, gitRevs, svn_log, ri, logs, li, bi, orphans1,
                 orphans2, num_changes, ops, skipped, prev, start_commits, diff0>>

\* git_setup_dir, lines 1285-1303: the first revision at or after revstart
\* that has a log, 0 when perr ends the run (a revision svn does not know,
\* or none up to the end of the range).
RECURSIVE FirstLogged(_, _)
FirstLogged(revstart, revend) ==
  IF revstart > MaxRev THEN 0
  ELSE IF revstart \in trunk THEN revstart
  ELSE IF revstart + 1 > revend THEN 0
  ELSE FirstLogged(revstart + 1, revend)

\* "if commit is None" of git_setup_dir, and a test that never finds it so.
NoParent_never(commit) == FALSE

NoParent(commit) == commit = 0

\* The target has the branch asked for.
HasBranch == \E b \in gitBranches : b.name = branch_name

\* git_setup_dir for a branch other than master.  git checkout fails for a
\* branch that does not exist and may fail for one that does; git branch
\* fails when the branch exists.  _main_func drops the value returned.
SetupBranch ==
  /\ pc = "idle" /\ run = 0 /\ branch_name # "master"
  /\ IF ~repo
     THEN Abort(1) /\ UNCHANGED <<gitBranches, setup>>
     ELSE \E co \in IF HasBranch THEN {0, 1} ELSE {1} :
       IF co = 0
       THEN pc' = "ready" /\ UNCHANGED <<status, gitBranches, setup>>
       ELSE \E cm \in IF commits # <<>> THEN {0, 1} ELSE {1} :
         IF cm # 0
         THEN Abort(1) /\ UNCHANGED <<gitBranches, setup>>
         ELSE LET history == gitCaptureLog(commits)
                  first == FirstLogged(revlist[1].start, revlist[1].end)
                  parent == findParentCommit(history, first)
              IN IF first = 0
                 THEN /\ Abort(1)
                      /\ setup' = [setup EXCEPT !.nocommits = TRUE]
                      /\ UNCHANGED gitBranches
                 ELSE /\ setup' = [called |-> TRUE, revstart |-> first, commit |-> parent,
                                  nocommits |-> FALSE]
                      /\ IF NoParent(parent)
                         THEN Abort(1) /\ UNCHANGED gitBranches
                         ELSE \E gb \in IF HasBranch THEN {1} ELSE {0, 1} :
                                /\ gitBranches' =
                                     IF gb = 0
                                     THEN gitBranches \cup {[name |-> branch_name, commit |-> parent]}
                                     ELSE gitBranches
                                /\ pc' = "ready" /\ UNCHANGED status
  /\ UNCHANGED <<envvars, cwd, revargs, auth_table, repovars, run, gitRevs, svn_log, ri, logs, li, bi,
                 orphans1, orphans2, num_changes, ops, prev, start_commits, diff0, skipped>>

\* One turn of "for rev in rlist" of _main_func: the next specifier is made
\* a range; the run ends when SvnRevRange ends it.
ParseRev ==
  /\ pc = "args" /\ Len(revlist) < Len(revargs)
  /\ LET newrev == SvnRevRange(revargs[Len(revlist) + 1])
     IN IF newrev.err
        THEN Abort(1) /\ UNCHANGED revlist
        ELSE /\ revlist' = Append(revlist, Range(newrev.start, newrev.end))
             /\ UNCHANGED <<pc, status>>
  /\ UNCHANGED <<trunk, svnmsg, snaps, keep_dates, tag_rev_list, tag_str_list, branch_name,
                 author_table, default_author, svn_auth, setupvars, repovars, run, auth_table,
                 gitRevs, svn_log, ri, logs, li, bi, orphans1, orphans2, num_changes, ops,
                 prev, start_commits, diff0, skipped, cwd>>

\* Every specifier has been read.
ArgsRead ==
  /\ pc = "args" /\ Len(revlist) = Len(revargs)
  /\ pc' = "idle"
  /\ UNCHANGED <<envvars, cwd, setupvars, repovars, run, auth_table, gitRevs, svn_log, ri, logs, li,
                 bi, orphans1, orphans2, num_changes, status, ops, prev, start_commits, diff0,
                 skipped>>

\* --------------------------------------------------------------------- inputs
\* The ranges N:M with 1 <= N <= M <= MaxRev, and the --rev lists of one or
\* two of them.
Ranges == {r \in [start : 1..MaxRev, end : 1..MaxRev] : r.start <= r.end}
\* The ranges "N:", which end at the most recent revision (end = -1).
OpenRanges == {Range(s, -1) : s \in 1..MaxRev}

RevLists == {<<r>> : r \in Ranges} \cup {<<r1, r2>> : r1 \in Ranges, r2 \in Ranges}

\* The message of revision r: one line, or four of which two look like the
\* lines of a provenance footer.
MsgOf(r) ==
  IF r % 2 = 0 THEN <<Txt(r), Imp(r + 1), Cby("eve", 1), Txt(r)>> ELSE <<Txt(r)>>

\* The snapshot of revision r: file a changes at every revision, the build
\* scripts are there.
SnapOf(r) ==
  [p \in Paths |-> IF p = PA THEN (IF r % 2 = 0 THEN "c2" ELSE "c1")
                   ELSE IF p = PCAM THEN "c1" ELSE "absent"]

\* The tag tables: no --tags, or one tag made after the last revision.
TagTables == {<<<<>>, <<>>>>, <<<<MaxRev + 1>>, <<"v1">>>>}

\* ------------------------------------------------------------ specification
\* git_setup_dir has not called findParentCommit.
NoSetup == [called |-> FALSE, revstart |-> 0, commit |-> 0, nocommits |-> FALSE]

\* The specifier "N:M" as tokens.
RevArg(r) == <<Digits[r.start], ":">> \o (IF r.end = -1 THEN <<>> ELSE <<Digits[r.end]>>)

\* Nothing has run yet and there is no target repository.
InitRepo ==
  /\ repo = FALSE /\ commits = <<>> /\ gitTags = {} /\ gitBranches = {}
  /\ worktree = EmptyTree /\ index = {} /\ staging = EmptyTree

InitRun ==
  /\ pc = "idle" /\ run = 0 /\ auth_table = NoTable /\ gitRevs = {} /\ svn_log = <<>> /\ ri = 1
  /\ logs = <<>> /\ li = 1 /\ bi = 1 /\ orphans1 = <<>> /\ orphans2 = <<>>
  /\ num_changes = 0 /\ status = 0 /\ ops = <<>> /\ skipped = {}
  /\ prev = "idle" /\ start_commits = <<>> /\ diff0 = FALSE /\ setup = NoSetup
  /\ cwd = StartDir

\* The arguments other than --rev and --tags left at their defaults: branch
\* master, no author table, no default author, the svn author kept; the
\* specifiers of revlist have been read.
InitArgs ==
  /\ branch_name = "master" /\ author_table = NoTable /\ default_author = None
  /\ svn_auth = TRUE
  /\ revargs = [i \in 1..Len(revlist) |-> RevArg(revlist[i])]

Init ==
  /\ trunk = 1..MaxRev
  /\ svnmsg = [r \in 1..MaxRev |-> MsgOf(r)]
  /\ snaps = [r \in 1..MaxRev |-> SnapOf(r)]
  /\ revlist \in RevLists
  /\ keep_dates \in BOOLEAN
  /\ \E t \in TagTables : tag_rev_list = t[1] /\ tag_str_list = t[2]
  /\ InitArgs
  /\ InitRepo
  /\ InitRun

Next ==
  \/ Start
  \/ CaptureRange
  \/ SortLogs
  \/ Export
  \/ RmFile
  \/ Copy
  \/ AddFile
  \/ Boiler
  \/ Mods
  \/ Commit
  \/ Tag
  \/ Kill

Spec == Init /\ [][Next]_vars

\* ------------------------------------------------- specification of the trees
\* A snapshot: file a, the workflow file under .github, the build script and
\* the two boilerplate files.
SnapTree(a, g, cam, b) ==
  [p \in Paths |-> IF p = PA THEN a ELSE IF p = PG THEN g
                   ELSE IF p = PCAM THEN cam ELSE b]

\* The snapshots svn export can produce: a is missing, a file or a link
\* without target; the boilerplate is in the snapshot or not.
Snapshots ==
  {SnapTree(a, g, cam, b) : a \in {"absent", "c1", "c2", "dangling"}, g \in {"absent", "c1"},
                            cam \in {"absent", "c1", "c2"}, b \in {"absent", "boiler"}}

\* Revisions 1 and 2 hold any two snapshots and are replayed with
\* --rev 1:2, the dates kept, no tags.
InitTree ==
  /\ trunk = 1..MaxRev
  /\ svnmsg = [r \in 1..MaxRev |-> MsgOf(r)]
  /\ \E s1 \in Snapshots, s2 \in Snapshots :
       snaps = [r \in 1..MaxRev |-> IF r = 1 THEN s1 ELSE IF r = 2 THEN s2 ELSE SnapOf(r)]
  /\ revlist = <<Range(1, 2)>>
  /\ keep_dates = TRUE
  /\ tag_rev_list = <<>> /\ tag_str_list = <<>>
  /\ InitArgs
  /\ InitRepo
  /\ InitRun

SpecTree == InitTree /\ [][Next]_vars

\* -------------------------------------------------- specification of the tags
\* The tag tables of one or two tags: the tags were made at revisions that
\* are not revisions of the trunk, and are listed in either order.
TagRevLists ==
  {<<t>> : t \in 1..(MaxRev + 1)}
    \cup {tt \in (1..(MaxRev + 1)) \X (1..(MaxRev + 1)) : tt[1] # tt[2]}

TagNames(trl) == SubSeq(<<"v1", "v2">>, 1, Len(trl))

\* Any trunk, any tag table beside it, one range; nothing has run yet.
InitTag ==
  /\ trunk \in (SUBSET (1..MaxRev)) \ {{}}
  /\ svnmsg = [r \in 1..MaxRev |-> MsgOf(r)]
  /\ snaps = [r \in 1..MaxRev |-> SnapOf(r)]
  /\ revlist \in {<<r>> : r \in Ranges}
  /\ keep_dates = TRUE
  /\ tag_rev_list \in {trl \in TagRevLists : \A i \in 1..Len(trl) : trl[i] \notin trunk}
  /\ tag_str_list = TagNames(tag_rev_list)
  /\ InitArgs
  /\ InitRepo
  /\ InitRun

\* The run up to the sorted list of entries.
NextTag ==
  \/ Start
  \/ CaptureRange
  \/ SortLogs

SpecTag == InitTag /\ [][NextTag]_vars

\* ------------------------------------------------ specification of the probes
\* svn_list: the entries listed, none when svn list fails.
svn_list(entries, retcode) == IF retcode = 0 THEN entries ELSE <<>>

\* svnLastChangedRev: the revision svn info reports, '' when it fails.
svnLastChangedRev(rev, retcode) == IF retcode = 0 THEN rev ELSE NoRev

\* "Determine the subversion revisions associated with each tag" of
\* _main_func, for the tags names made at the revisions revs: the two tables,
\* given how svn list and each svn info end.
ProbeTags(names, revs, listcode, infocodes) ==
  LET svnTags == svn_list(names, listcode)
  IN [strs |-> svnTags,
      revs |-> [k \in 1..Len(svnTags) |-> svnLastChangedRev(revs[k], infocodes[k])]]

\* The tag URL holds v1 and v2, made after the last revision of the trunk;
\* svn list and each svn info succeed or fail.
InitProbe ==
  /\ trunk \in (SUBSET (1..MaxRev)) \ {{}}
  /\ svnmsg = [r \in 1..MaxRev |-> MsgOf(r)]
  /\ snaps = [r \in 1..MaxRev |-> SnapOf(r)]
  /\ revlist \in {<<r>> : r \in Ranges}
  /\ keep_dates = TRUE
  /\ \E listcode \in {0, 1}, info1 \in {0, 1}, info2 \in {0, 1} :
       LET tables == ProbeTags(<<"v1", "v2">>, <<MaxRev + 1, MaxRev + 2>>, listcode,
                               <<info1, info2>>)
       IN tag_rev_list = tables.revs /\ tag_str_list = tables.strs
  /\ InitArgs
  /\ InitRepo
  /\ InitRun

SpecProbe == InitProbe /\ [][NextTag]_vars

\* ------------------------------------------------ specification of the parser
\* The messages of a revision: no line at all (a header of 0 lines), one
\* line of text, a line that looks like a divider, a line that looks like a
\* header, and two lines of which the second is blank.
Messages ==
  {<<>>, <<Txt(1)>>, <<Div>>, <<Hdr(MaxRev, "eve", 1)>>, <<Txt(1), Blank>>}

\* Any message at any revision, one range, the tag tables of Init.
InitParse ==
  /\ trunk = 1..MaxRev
  /\ svnmsg \in [1..MaxRev -> Messages]
  /\ snaps = [r \in 1..MaxRev |-> SnapOf(r)]
  /\ revlist \in {<<r>> : r \in Ranges}
  /\ keep_dates = TRUE
  /\ \E t \in TagTables : tag_rev_list = t[1] /\ tag_str_list = t[2]
  /\ InitArgs
  /\ InitRepo
  /\ InitRun

SpecParse == InitParse /\ [][NextTag]_vars

\* ---------------------------------------------- specification of the messages
\* The messages of the revisions replayed: one short line, a first line of
\* exactly SummaryMax characters, a longer first line with a second line,
\* and lines that look like the lines of a provenance footer: one of each,
\* or the footer of an earlier import quoted with some of its lines repeated.
CommitMessages ==
  {<<Txt(1)>>, <<TxtOf(1, SummaryMax)>>, <<TxtOf(1, SummaryMax + 1), Txt(2)>>,
   <<Txt(1), Imp(MaxRev), Cby("eve", 1)>>,
   <<Txt(1), Imp(MaxRev), Imp(MaxRev), Imp(MaxRev), Cby("eve", 1), Txt(2)>>}

\* Revisions 1 and 2 carry any of the messages and are replayed with
\* --rev 1:2, with either date policy.
InitMsg ==
  /\ trunk = 1..MaxRev
  /\ \E m1 \in CommitMessages, m2 \in CommitMessages :
       svnmsg = [r \in 1..MaxRev |-> IF r = 1 THEN m1 ELSE IF r = 2 THEN m2 ELSE MsgOf(r)]
  /\ snaps = [r \in 1..MaxRev |-> SnapOf(r)]
  /\ revlist = <<Range(1, 2)>>
  /\ keep_dates \in BOOLEAN
  /\ tag_rev_list = <<>> /\ tag_str_list = <<>>
  /\ InitArgs
  /\ InitRepo
  /\ InitRun

SpecMsg == InitMsg /\ [][Next]_vars

\* ----------------------------------------------- specification of the authors
\* The author tables: none, an empty file, a file with an entry for bob.
AuthorTables ==
  {NoTable, [given |-> TRUE, tab |-> {}, warned |-> <<>>],
   [given |-> TRUE, tab |-> {[svn |-> "bob", git |-> "Bob Smith <bob@example.org>"]},
    warned |-> <<>>]}

\* Revisions 1..MaxRev, committed by bob, carol and amy@x.org in turn, are
\* replayed with --rev 1:MaxRev, or with --rev 2:2 --rev 1:MaxRev, under
\* every author policy.
InitAuth ==
  /\ trunk = 1..MaxRev
  /\ svnmsg = [r \in 1..MaxRev |-> MsgOf(r)]
  /\ snaps = [r \in 1..MaxRev |-> SnapOf(r)]
  /\ revlist \in {<<Range(1, MaxRev)>>, <<Range(2, 2), Range(1, MaxRev)>>}
  /\ keep_dates = TRUE
  /\ tag_rev_list = <<>> /\ tag_str_list = <<>>
  /\ branch_name = "master"
  /\ author_table \in AuthorTables
  /\ default_author \in {None, "Dee <dee@example.org>"}
  /\ svn_auth \in BOOLEAN
  /\ revargs = [k \in 1..Len(revlist) |-> RevArg(revlist[k])]
  /\ InitRepo
  /\ InitRun

SpecAuth == InitAuth /\ [][Next]_vars

\* ------------------------------------------------ specification of the ranges
\* The tokens, and the specifiers of at most MaxSpecLen of them.
Tokens == {Digits[d] : d \in 1..MaxRev} \cup {":", "-", "HEAD", "BASE", "x"}
RECURSIVE SpecsOf(_)
SpecsOf(n) ==
  IF n = 0 THEN {<<>>}
  ELSE SpecsOf(n - 1) \cup {Append(s, t) : s \in SpecsOf(n - 1), t \in Tokens}

\* --rev is given once with any specifier, or twice, first with "2:3".
InitRange ==
  /\ trunk = 1..MaxRev
  /\ svnmsg = [r \in 1..MaxRev |-> MsgOf(r)]
  /\ snaps = [r \in 1..MaxRev |-> SnapOf(r)]
  /\ revlist = <<>>
  /\ \E spec \in SpecsOf(MaxSpecLen) :
       revargs \in {<<spec>>, <<RevArg(Range(2, 3)), spec>>}
  /\ keep_dates = TRUE
  /\ tag_rev_list = <<>> /\ tag_str_list = <<>>
  /\ branch_name = "master" /\ author_table = NoTable /\ default_author = None
  /\ svn_auth = TRUE
  /\ gitBranches = {} /\ setup = NoSetup
  /\ repo = FALSE /\ commits = <<>> /\ gitTags = {}
  /\ worktree = EmptyTree /\ index = {} /\ staging = EmptyTree
  /\ pc = "args" /\ run = 0 /\ auth_table = NoTable /\ gitRevs = {} /\ svn_log = <<>>
  /\ ri = 1 /\ logs = <<>> /\ li = 1 /\ bi = 1 /\ orphans1 = <<>> /\ orphans2 = <<>>
  /\ num_changes = 0 /\ status = 0 /\ ops = <<>> /\ skipped = {}
  /\ prev = "idle" /\ start_commits = <<>> /\ diff0 = FALSE /\ cwd = StartDir

NextRange ==
  \/ ParseRev
  \/ ArgsRead

SpecRange == InitRange /\ [][NextRange]_vars

\* ------------------------------------------------ specification of the branch
\* The tree an earlier replay of revision r left in its commit on master:
\* file a and the boilerplate; the path replayed then had no build script.
ReplayedTree(r) ==
  [p \in Paths |-> IF p \in {PIGN, PTGIT} THEN "boiler"
                   ELSE IF p = PCAM THEN "absent" ELSE SnapOf(r)[p]]

\* The history earlier runs left for the revisions revs, replayed in that
\* order with the date policy of this run.
HistCommit(i, r) ==
  [id |-> i, rev |-> r,
   msg |-> full_message(formatLogMessage(
             SvnLogEntry(r, SvnWho(r), IF keep_dates THEN r ELSE 0, MsgOf(r), None))),
   author |-> SvnWho(r), tree |-> ReplayedTree(r)]

HistoryOf(revs) ==
  IF Len(revs) = 0 THEN <<>>
  ELSE IF Len(revs) = 1 THEN <<HistCommit(1, revs[1])>>
  ELSE <<HistCommit(1, revs[1]), HistCommit(2, revs[2])>>

\* Up to two revisions, in any order.
HistoryRevs ==
  {<<>>} \cup {<<r>> : r \in 1..MaxRev}
         \cup {rr \in (1..MaxRev) \X (1..MaxRev) : rr[1] # rr[2]}

\* A branch is asked for: the target is missing, or holds a history on
\* master and perhaps the branch already.
InitBranch ==
  /\ trunk \in (SUBSET (1..MaxRev)) \ {{}}
  /\ svnmsg = [r \in 1..MaxRev |-> MsgOf(r)]
  /\ snaps = [r \in 1..MaxRev |-> SnapOf(r)]
  /\ revlist \in {<<r>> : r \in Ranges \cup OpenRanges}
  /\ keep_dates \in BOOLEAN
  /\ tag_rev_list = <<>> /\ tag_str_list = <<>>
  /\ branch_name = "br" /\ author_table = NoTable /\ default_author = None
  /\ svn_auth = TRUE
  /\ revargs = [i \in 1..Len(revlist) |-> RevArg(revlist[i])]
  /\ \E revs \in HistoryRevs :
       /\ commits = HistoryOf(revs)
       /\ repo \in IF revs = <<>> THEN BOOLEAN ELSE {TRUE}
       /\ worktree = IF revs = <<>> THEN EmptyTree ELSE ReplayedTree(revs[Len(revs)])
       /\ index = IF revs = <<>> THEN {}
                  ELSE {p \in Paths : ReplayedTree(revs[Len(revs)])[p] # "absent"}
       /\ gitBranches \in IF revs = <<>> THEN {{}}
                          ELSE {{}, {[name |-> "br", commit |-> 1]}}
  /\ gitTags = {} /\ staging = EmptyTree
  /\ InitRun

NextBranch ==
  \/ SetupBranch
  \/ Next

SpecBranch == InitBranch /\ [][NextBranch]_vars

\* --------------------------------------------------------------- properties
\* What the properties speak of.
RECURSIVE SortInts(_)
SortInts(s) ==
  IF s = <<>> THEN <<>>
  ELSE LET m == SeqMin(s)
           i == IndexOf(s, m)
       IN <<m>> \o SortInts(SubSeq(s, 1, i - 1) \o SubSeq(s, i + 1, Len(s)))

\* The revisions the ranges of revlist ask for, range by range.
Candidates == Concat([i \in 1..Len(revlist) |-> ListedRevs(revString(revlist[i]))])
Requested == {Candidates[i] : i \in 1..Len(Candidates)}

\* The revisions for which the target holds a commit.
Committed == {commits[i].rev : i \in 1..Len(commits)}

\* The revisions named by the provenance footers of the target history: the
\* 'Imported from' line is the third line of a message the script wrote.
FooterRevs == {commits[i].msg[3].a : i \in 1..Len(commits)}

\* The revisions of the entries to replay, in replay order.
ReplayRevs == [i \in 1..Len(logs) |-> logs[i].rev]

\* The operations of the run that were commits and succeeded.
OkCommits == {i \in 1..Len(ops) : ops[i].op = "commit" /\ ops[i].ok}

\* The run has chosen what to replay and has replayed nothing yet.
Chosen == pc \in {"export", "done"} /\ ops = <<>>

\* C1: a second run with the same arguments, after a run that completed,
\* creates no commit.
C1_Idempotent == (run >= 2 /\ prev = "done") => OkCommits = {}

\* C2: a run that follows an interrupted one skips exactly the requested
\* revisions that have a commit in the target and starts its replay at the
\* lowest requested revision that has none.
C2_Resumes ==
  (Chosen /\ prev \in {"killed", "aborted"}) =>
    /\ skipped = Requested \cap Committed
    /\ IF Requested \subseteq Committed THEN logs = <<>>
       ELSE logs # <<>> /\ logs[1].rev = SeqMin(SortInts(SelectSeq(Candidates, LAMBDA r : r \notin Committed)))

\* C3: the replay steps of a run come in ascending order of revision: no
\* operation of a revision follows an operation of a higher one.
C3_Monotonic == \A i \in 1..Len(ops) : \A j \in i..Len(ops) : ops[i].rev <= ops[j].rev

\* C3 witness: two ranges given in descending order, both replayed.
C3_Witness ==
  /\ Len(revlist) = 2 /\ revlist[1].start > revlist[2].end
  /\ \E i \in 1..Len(ops) : \E j \in 1..Len(ops) :
       ops[i].rev = revlist[2].start /\ ops[j].rev = revlist[1].start

\* C7: the entries replayed are exactly the candidates whose revision is in
\* no provenance footer of the target history, in ascending order, and a skip
\* is logged for each of the others.
C7_Filter ==
  Chosen =>
    /\ ReplayRevs = SortInts(SelectSeq(Candidates, LAMBDA r : r \notin FooterRevs))
    /\ skipped = Requested \cap FooterRevs

\* C8: a failed operation is the last one of its run: the run has ended with
\* a non-zero status, and the commits are those there were at the start of
\* the run and then one for each commit operation that succeeded.
C8_FailStop ==
  /\ \A i \in 1..Len(ops) :
       ~ops[i].ok => i = Len(ops) /\ pc = "aborted" /\ status # 0
  /\ Len(commits) = Len(start_commits) + Cardinality(OkCommits)
  /\ SubSeq(commits, 1, Len(start_commits)) = start_commits

\* C8 witness: an operation failed in a run that had already made a commit.
C8_Witness ==
  /\ ops # <<>> /\ ~ops[Len(ops)].ok /\ OkCommits # {}
  /\ start_commits # <<>>

\* C9: no revision is replayed twice in a run: the run exports each revision
\* at most once.
C9_Once ==
  \A i \in 1..Len(ops) : \A j \in 1..Len(ops) :
    (ops[i].op = "export" /\ ops[j].op = "export" /\ ops[i].rev = ops[j].rev) => i = j

C4_RoundTrip ==
  (pc = "tag" /\ ops # <<>> /\ ops[Len(ops)].op = "commit" /\ ops[Len(ops)].ok)
    => \A p \in {PA, PG} :
         HeadTree[p] = (IF staging[p] = "dangling" THEN "absent" ELSE staging[p])

\* C5: git commit is run for an entry only when the snapshot differs from
\* the working copy by an addition, a removal or a change of content.
C5_NoOp ==
  (ops # <<>> /\ ops[Len(ops)].op = "commit") => diff0

\* C6: once the entries of a first run are sorted, the label of each tag at
\* revision T, R_k being the greatest revision of the trunk at or below T,
\* is on the entry of R_k if R_k has one, and on no entry of a later
\* revision.
C6_Placement ==
  (pc = "export" /\ prev = "idle")
    => \A j \in 1..Len(tag_rev_list) :
         LET T == tag_rev_list[j]
             below == {r \in trunk : r <= T}
         IN below # {}
            => LET Rk == CHOOSE r \in below : \A r2 \in below : r2 <= r
               IN \A i \in 1..Len(logs) :
                    /\ logs[i].rev = Rk => logs[i].tag = tag_str_list[j]
                    /\ logs[i].rev > Rk => logs[i].tag # tag_str_list[j]

\* C11: a link without target in the snapshot adds nothing to the change
\* count and is neither copied nor registered: the turn of the loop over
\* orphans1 that meets it leaves num_changes, the working copy and the index
\* as they were.
C11_Dangling ==
  [][(pc = "add" /\ orphans1 # <<>> /\ staging[orphans1[1]] = "dangling")
       => (num_changes' = num_changes /\ worktree' = worktree /\ index' = index)]_vars

\* C12: from the export of a revision to the end of its replay, the staging
\* directory holds the snapshot of that revision and nothing else, whatever
\* it held before the export.
C12_Isolated ==
  pc \in {"rm", "add", "mods", "commit", "tag"} => staging = snaps[log.rev]

\* C12 witness: the second revision is exported after the first, whose
\* snapshot held a file the second does not have.
C12_Witness ==
  /\ pc = "rm" /\ li = 2 /\ Len(ops) > 1
  /\ \E p \in Paths : snaps[logs[1].rev][p] # "absent" /\ snaps[logs[2].rev][p] = "absent"

\* The label the rule of C13 gives the entry of revision R followed by
\* R_next: that of the least tag revision at or above R when it is below
\* R_next, none otherwise.
RuleTag(R, R_next) ==
  LET above == {j \in 1..Len(tag_rev_list) : tag_rev_list[j] >= R}
  IN IF above = {} THEN None
     ELSE LET m == CHOOSE j \in above : \A j2 \in above : tag_rev_list[j] <= tag_rev_list[j2]
          IN IF tag_rev_list[m] < R_next THEN tag_str_list[m] ELSE None

C14_Parser ==
  (run = 1 /\ pc = "svnlog" /\ ri = 2)
    => LET revs == ListedRevs(revString(revlist[1]))
       IN /\ Len(svn_log) = Len(revs)
          /\ \A i \in 1..Len(revs) :
               svn_log[i].rev = revs[i] /\ svn_log[i].msg = svnmsg[revs[i]]

BranchFirst ==
  LET inrange == {r \in trunk : revlist[1].start <= r /\ r <= revlist[1].end}
  IN IF inrange = {} THEN 0 ELSE CHOOSE r \in inrange : \A r2 \in inrange : r <= r2

\* The branch has to be made and no record of the history is of a revision
\* below its first revision.
NoAnchor ==
  /\ repo /\ ~HasBranch /\ BranchFirst # 0
  /\ LET history == gitCaptureLog(commits)
     IN \A i \in 1..Len(history) : history[i].rev >= BranchFirst

\* C16: with a branch other than master asked for, git_setup_dir ends the run
\* with an error when the target repository is missing, and when the branch
\* has to be made and no record of the history is below its first revision;
\* it makes no branch and no commit then, and nothing runs after it.
C16_SetupErrors ==
  [][/\ (pc = "idle" /\ branch_name # "master" /\ (~repo \/ NoAnchor))
        => /\ pc' = "aborted" /\ status' # 0
           /\ gitBranches' = gitBranches /\ commits' = commits
           /\ run' = 0 /\ ops' = <<>>
     /\ (pc = "aborted" /\ run = 0 /\ branch_name # "master") => UNCHANGED vars]_vars

\* C16 witness: the setup ended the run for want of a commit to start the
\* branch from, with records in the history.
C16_Witness ==
  /\ pc = "aborted" /\ run = 0 /\ status # 0 /\ NoAnchor
  /\ setup.called /\ setup.commit = 0 /\ gitCaptureLog(commits) # <<>>

\* C16 witness of the other case: there was no repository.
C16_WitnessNoRepo == pc = "aborted" /\ run = 0 /\ status # 0 /\ ~repo

\* A line handed to git with a quote character: the text of line.
IsQuoted(qline, line) ==
  qline.k = "quoted" /\ qline.a = line.a /\ qline.b = line.b /\ qline.c = line.c

\* Line i of n of a message handed to git is the line given, the first and
\* the last line with the quote gitCommitAll puts there.
IsLine(msg, i, line) ==
  IF i = 1 \/ i = Len(msg) THEN IsQuoted(msg[i], line) ELSE msg[i] = line

\* The summary line of a message whose first line is first.
IsSummary(line, first) ==
  /\ line.a = first.a /\ line.c <= SummaryMax
  /\ IF first.c <= SummaryMax THEN IsQuoted(line, first)
     ELSE line.k = "quoted" /\ line.b = " ..." /\ line.c = SummaryMax

\* The date in the message of revision r: 0 is the text "None".
WhenOf(r) == IF keep_dates THEN r ELSE 0

\* C17 as stated: the message of every commit is the summary, a blank line,
\* the whole original message, the three footer lines and the original
\* message again.
C17_LayoutStated ==
  \A i \in 1..Len(commits) :
    LET msg == commits[i].msg
        r == commits[i].rev
        m == svnmsg[r]
        n == Len(m)
    IN /\ Len(msg) = 2 * n + 5
       /\ IsSummary(msg[1], m[1]) /\ msg[2] = Blank
       /\ \A j \in 1..n : IsLine(msg, 2 + j, m[j])
       /\ msg[n + 3] = Imp(r) /\ msg[n + 4] = Cby(SvnWho(r), WhenOf(r))
       /\ msg[n + 5] = OrigLine
       /\ \A j \in 1..n : IsLine(msg, n + 5 + j, m[j])

\* C17 amended: the message of every commit is the summary (the first line,
\* cut to 72 characters with an ellipsis when it is longer), a blank line,
\* the three footer lines, a blank line and the original message.
C17_Layout ==
  \A i \in 1..Len(commits) :
    LET msg == commits[i].msg
        r == commits[i].rev
        m == svnmsg[r]
        n == Len(m)
    IN /\ Len(msg) = n + 6
       /\ IsSummary(msg[1], m[1]) /\ msg[2] = Blank
       /\ msg[3] = Imp(r) /\ msg[4] = Cby(SvnWho(r), WhenOf(r))
       /\ msg[5] = OrigLine /\ msg[6] = Blank
       /\ \A j \in 1..n : IsLine(msg, 6 + j, m[j])

\* C17 witness: a commit was made for a revision whose first line is longer
\* than 72 characters.
C17_Witness ==
  \E i \in 1..Len(commits) : svnmsg[commits[i].rev][1].c > SummaryMax

\* The entry of the table given for an identity, if there is one (the run
\* adds entries for the default author only).
GivenFor(who) == {e \in author_table.tab : e.svn = who}

\* The policy of C18 for the identity who.
Resolved(who) ==
  IF author_table.given
  THEN IF GivenFor(who) # {} THEN (CHOOSE e \in GivenFor(who) : TRUE).git
       ELSE IF default_author # None THEN default_author
       ELSE IF who = "amy@x.org" THEN "amy : <amy@x.org>"
       ELSE IF who = "carol" THEN "carol : <missing_email@missing.email>"
       ELSE "bob : <missing_email@missing.email>"
  ELSE IF ~svn_auth THEN None
  ELSE who

\* C18: the author of every entry captured, in the message and as handed to
\* git commit, is the one the policy gives the committer of its revision:
\* the table value, else the default, else "local : <identity>" for an
\* identity with an '@' and "identity : <missing_email@missing.email>"
\* without; no author with no table and the svn author ignored.
C18_Policy ==
  /\ \A i \in 1..Len(svn_log) : svn_log[i].who = Resolved(SvnWho(svn_log[i].rev))
  /\ \A i \in 1..Len(commits) :
       /\ commits[i].author = Resolved(SvnWho(commits[i].rev))
       /\ commits[i].msg[4].b = commits[i].author

\* C18 witness: a commit was made for an identity with an '@' that is not in
\* the table given, there being no default.
C18_Witness ==
  /\ author_table.given /\ default_author = None
  /\ \E i \in 1..Len(commits) : commits[i].author = "amy : <amy@x.org>"

\* C18 witness of the author left out: a commit was made with no author.
C18_WitnessNone == \E i \in 1..Len(commits) : commits[i].author = None

\* The colons of a specifier.
Colons(a) == Cardinality({k \in 1..Len(a) : a[k] = ":"})

\* A specifier is malformed: it has more than one colon, or a side that is
\* neither empty nor a number, the words HEAD and BASE alone apart.
Malformed(a) ==
  \/ Colons(a) > 1
  \/ /\ a \notin {<<"HEAD">>, <<"BASE">>}
     /\ \E i \in 1..Len(Split(a)) : Split(a)[i] # <<>> /\ ~IsInt(Split(a)[i])

\* The numbers of one or two digits, none of them 0, and how they are
\* written.
Numbers == {v \in 1..99 : v % 10 # 0}
Written(v) == IF v < 10 THEN <<Digits[v]>> ELSE <<Digits[v \div 10], Digits[v % 10]>>
NumeralOf == [v \in Numbers |-> Written(v)]

\* The side text of a specifier stands for the number n of a range: a
\* numeral for its number, with a sign or without, and nothing for none.
SideIs(text, n, none) ==
  /\ text = <<>> => n = none
  /\ \A v \in Numbers :
       /\ text = NumeralOf[v] => n = v
       /\ text = <<"-">> \o NumeralOf[v] => n = 0 - v

\* C19: every range made is the one the form of its specifier gives: N gives
\* {N, 0}, N:M {N, M}, :M {-1, M}, N: {N, -1}, BASE {-1, 0}, HEAD {0, -1};
\* a malformed specifier ends the run with an error and makes no range, and
\* the run goes on only when every specifier was made a range.
C19_Parsing ==
  /\ \A k \in 1..Len(revlist) :
       LET a == revargs[k]
           r == revlist[k]
           colon == CHOOSE c \in 1..Len(a) : a[c] = ":"
       IN /\ ~Malformed(a)
          /\ Colons(a) = 1 => /\ SideIs(SubSeq(a, 1, colon - 1), r.start, -1)
                              /\ SideIs(SubSeq(a, colon + 1, Len(a)), r.end, -1)
          /\ (Colons(a) = 0 /\ a \notin {<<>>, <<"BASE">>, <<"HEAD">>})
               => SideIs(a, r.start, 0) /\ r.end = 0
          /\ a = <<"BASE">> => r = Range(-1, 0)
          /\ a = <<"HEAD">> => r = Range(0, -1)
  /\ (Len(revlist) < Len(revargs) /\ Malformed(revargs[Len(revlist) + 1]))
       => (pc = "args" \/ (pc = "aborted" /\ status # 0))
  /\ (pc = "args" /\ Len(revlist) < Len(revargs) /\ Malformed(revargs[Len(revlist) + 1]))
       => ~ENABLED ArgsRead
  /\ pc = "idle" => Len(revlist) = Len(revargs)

\* C19 witness: a second specifier with a side that is not a number ended
\* the run after the first was made a range.
C19_Witness ==
  /\ pc = "aborted" /\ Len(revlist) = 1 /\ Len(revargs) = 2
  /\ Colons(revargs[2]) = 1 /\ Malformed(revargs[2])

\* C19 witness of the forms: a range with both sides given was made.
C19_WitnessRange ==
  /\ pc = "idle" /\ Len(revlist) = 1
  /\ \E v \in Numbers, w \in Numbers : revargs[1] = NumeralOf[v] \o <<":">> \o NumeralOf[w]

\* C20: for every commit a replay made, the scan of the history of the
\* target gives a record of that commit with the revision it was made for.
C20_Provenance ==
  \A i \in 1..Len(commits) :
    \E j \in 1..Len(gitCaptureLog(commits)) :
      /\ gitCaptureLog(commits)[j].commit = commits[i].id
      /\ gitCaptureLog(commits)[j].rev = commits[i].rev

\* Every entry the captures of a run make for revision r is labelled name.
LabelledAs(r, name) ==
  LET entries(k) == svn_capture_log(revString(revlist[k]), parseAuthorTable(author_table),
                                    svn_auth, keep_dates, default_author, tag_rev_list,
                                    tag_str_list).logs
  IN /\ \E k \in 1..Len(revlist) : \E i \in 1..Len(entries(k)) : entries(k)[i].rev = r
     /\ \A k \in 1..Len(revlist) : \A i \in 1..Len(entries(k)) :
          entries(k)[i].rev = r => entries(k)[i].tag = name

\* The tag name is in the target, on a commit made for revision r.
TagOn(r, name) ==
  \E t \in gitTags : t.name = name /\ t.commit <= Len(commits) /\ commits[t.commit].rev = r

\* C21: when a run is interrupted between the commit of a labelled entry
\* and its tag, the tag is in the target, on a commit of that revision, once
\* the next run has ended normally.  The interrupted run left the commit of
\* the labelled entry as the last one: the tag was applied before the
\* interruption or was still to be applied.
C21_TagSurvives ==
  (run > 1 /\ pc = "done" /\ prev = "killed" /\ start_commits # <<>>) =>
    LET r == start_commits[Len(start_commits)].rev
    IN \A name \in {tag_str_list[k] : k \in 1..Len(tag_str_list)} :
         LabelledAs(r, name) => TagOn(r, name)

\* C22: with a tag table, the search for a tag never ends the run: every
\* revision listed gets an entry, and the entry of a revision that no tag
\* revision reaches has no tag.
C22_Total ==
  (tag_rev_list # <<>> /\ run = 1) =>
    /\ pc # "aborted"
    /\ (pc = "svnlog" /\ ri > Len(revlist)) =>
         /\ RevsOf(svn_log) = {Candidates[i] : i \in 1..Len(Candidates)}
         /\ \A i \in 1..Len(svn_log) :
              (\A k \in 1..Len(tag_rev_list) : tag_rev_list[k] < svn_log[i].rev)
                => svn_log[i].tag = None

\* The headers svn_capture_log read in the log of the first range.
HeadsRead ==
  svn_capture_log(revString(revlist[1]), parseAuthorTable(author_table), svn_auth,
                  keep_dates, default_author, tag_rev_list, tag_str_list).heads

\* The revision of the block after the block of position k of the log of
\* the first range, the sentinel after the last block.
NextBlock(k) ==
  LET revs == ListedRevs(revString(revlist[1]))
  IN IF k < Len(revs) THEN revs[k + 1] ELSE MaxSize

\* C23: once the first range is captured, the headers read are those of the
\* blocks of the log, and the next revision found for each is the revision
\* of the next block, the sentinel for the last block.
C23_LookAhead ==
  (run = 1 /\ pc = "svnlog" /\ ri = 2) =>
    LET revs == ListedRevs(revString(revlist[1]))
    IN /\ Len(HeadsRead) = Len(revs)
       /\ \A k \in 1..Len(HeadsRead) :
            HeadsRead[k].rev = revs[k] /\ HeadsRead[k].rev_next = NextBlock(k)

\* C24: no two entries kept for replay by a run carry the same tag, and no
\* run issues git tag twice for entries with the same tag.
C24_OneEntry ==
  /\ \A i \in 1..Len(svn_log) : \A j \in 1..Len(svn_log) :
       (svn_log[i].tag # None /\ svn_log[i].tag = svn_log[j].tag) => i = j
  /\ \A i \in 1..Len(ops) : \A j \in 1..Len(ops) :
       (ops[i].op = "tag" /\ ops[j].op = "tag") => i = j

\* C25: the commit findParentCommit gave git_setup_dir is that of the record
\* with the greatest revision among the records of the history below the
\* revision asked for, and no commit when there is none (histories with a
\* record of the very revision asked for are left aside).
C25_Closest ==
  (setup.called /\ run = 0) =>
    LET history == gitCaptureLog(commits)
        lower == {i \in 1..Len(history) : history[i].rev < setup.revstart}
        same == {i \in 1..Len(history) : history[i].rev = setup.revstart}
    IN same = {} =>
         IF lower = {} THEN setup.commit = 0
         ELSE \E i \in lower :
                /\ setup.commit = history[i].commit
                /\ \A i2 \in lower : history[i2].rev <= history[i].rev

\* C26: the scan of the history gives at most one record for a commit, and
\* every record has the id of a commit whose own message holds a line
\* 'Imported from' and a line 'Committed by' (so none for a commit whose
\* message lacks one of them).
C26_Scan ==
  LET history == gitCaptureLog(commits)
  IN /\ \A i \in 1..Len(history) : \A j \in 1..Len(history) :
          history[i].commit = history[j].commit => i = j
     /\ \A i \in 1..Len(history) :
          \E c \in 1..Len(commits) :
            /\ commits[c].id = history[i].commit
            /\ \E k \in 1..Len(commits[c].msg) : reImport(commits[c].msg[k])
            /\ \E k \in 1..Len(commits[c].msg) : reAuthor(commits[c].msg[k])

\* C27: a probe that fails does not end the run: with no tag listed, or with
\* tags whose revision could not be read, every revision listed gets an
\* entry, and no entry carries a tag whose revision is unknown.
C27_Advisory ==
  run = 1 =>
    /\ pc # "aborted"
    /\ (pc = "svnlog" /\ ri > Len(revlist)) =>
         /\ RevsOf(svn_log) = Requested \cap trunk
         /\ \A i \in 1..Len(svn_log) : \A k \in 1..Len(tag_rev_list) :
              tag_rev_list[k] = NoRev => svn_log[i].tag # tag_str_list[k]

\* The warnings printed for who in the run.
Warnings(who) == Cardinality({k \in 1..Len(auth_table.warned) : auth_table.warned[k] = who})

\* C28: with a table and a default author, an author absent from the table
\* is warned about once in a run however many of its entries are read, each
\* of its entries has the default author, and the table holds its mapping
\* to the default from the first entry on.
C28_Memo ==
  (author_table.given /\ default_author # None) =>
    /\ \A who \in {SvnWho(r) : r \in 1..MaxRev} : Warnings(who) <= 1
    /\ \A i \in 1..Len(svn_log) :
         LET who == SvnWho(svn_log[i].rev) IN
         GivenFor(who) = {} =>
           /\ svn_log[i].who = default_author
           /\ Warnings(who) = 1
           /\ [svn |-> who, git |-> default_author] \in auth_table.tab

\* C28 witness: two entries were read for carol, who is not in the table
\* given, and one warning was printed for her.
C28_Witness ==
  /\ author_table.given /\ default_author # None
  /\ Cardinality({i \in 1..Len(svn_log) : SvnWho(svn_log[i].rev) = "carol"}) = 2
  /\ Warnings("carol") = 1

\* The revisions of the first range that have a log entry, the end -1
\* standing for the most recent revision.
InRange ==
  LET last == IF revlist[1].end = -1 THEN MaxRev ELSE revlist[1].end
  IN {r \in trunk : revlist[1].start <= r /\ r <= last}

\* C29: the probe of git_setup_dir for a new branch ends at the lowest
\* revision of the range that has a log entry, and it reports 'No commits in
\* range' only when no revision of the range has one.
C29_Anchor ==
  /\ setup.called => InRange # {} /\ \A r \in InRange : setup.revstart <= r
  /\ setup.called => setup.revstart \in InRange
  /\ setup.nocommits => InRange = {}

\* C30: the steps of a run leave the working directory of the process as
\* it was: each helper goes back to the directory it was called in.
C30_Frame == [][run' = run => cwd' = cwd]_vars

====
